---- MODULE Spec2Model ----
(***************************************************************************)
(* On-demand video generation of the Humsafar backend                      *)
(* (src/app/routers/video.py): the job registry _generation_state, the     *)
(* artifact files under static/videos, the two HTTP handlers and the       *)
(* background task _generate_video_task with its ffmpeg worker thread.     *)
(*                                                                         *)
(* Scheduling.  The handlers and the task are coroutines of one asyncio    *)
(* event loop: code between two suspension points runs without any other   *)
(* coroutine running in between.  `loop` names the task that holds the     *)
(* event loop in the middle of such a stretch (0: the loop is free).  The  *)
(* task really suspends at asyncio.sleep (line 160), at the HTTP call of   *)
(* synthesize (sarvam_tts.py line 57) and at run_in_executor (line 178);   *)
(* `await _fetch_monument_images` never suspends (that coroutine awaits    *)
(* nothing).  _run_ffmpeg runs on a worker thread and the ffmpeg child     *)
(* process, so its steps need no event loop.                               *)
(***************************************************************************)
EXTENDS Integers, Sequences, FiniteSets, TLC

\* ---------------------------------------------------------------- bounds
\* Number of distinct identifiers (fingerprints / site ids) in play.
NumIds == 2

IdName == <<"a3f1", "b7c2", "c9d4", "d0e5">>

\* The identifiers clients submit and poll.
Ids == {IdName[i] : i \in 1..NumIds}

\* Task slots: one more than the identifiers, so that a second task of one
\* fingerprint always finds room.
MaxTasks == NumIds + 1

Slots == 1..MaxTasks

\* ------------------------------------------------------------- constants
None == "None"

BASE_URL == "https://humsafar-backend-59ic.onrender.com"

\* The numbers of *.jpg files that static/images/<site_id> can hold when the
\* request behind each identifier reaches scene selection.  The first two
\* requests can both find their directory missing or empty; the second can
\* also find more files than the five the code keeps.
SiteJpgs == <<{0}, {0, 7}, {3}, {1}>>

MsgKeyMissing == "SARVAM_API_KEY is not set in environment"

TtsErrors == {"Sarvam TTS error 500", "Sarvam TTS returned empty audio list"}

FfmpegErrors == {"FFmpeg exit 1", "Command ffmpeg timed out after 300 seconds"}

MsgOutputMissing == "FFmpeg completed but output file is missing"

\* str() of the FileNotFoundError that os.path.getsize raises (line 347).
MsgNoSuchFile == "[Errno 2] No such file or directory"

\* The pipeline stages in program order.
StageOrder == <<"intake", "narration", "scenes", "encoding", "finalize">>

\* ----------------------------------------------------------------- state
VARIABLES
    registry,        \* _generation_state: dict hash -> entry (a record)
    prompt_files,    \* PROMPT_DIR/<id>.mp4: "absent" | "partial" | "complete"
                     \* | "deleted" (removed from outside, not written since)
    overview_files,  \* ids with a file OVERVIEW_DIR/<id>.mp4 (no code
                     \* writes there: none, or one for the first id)
    placeholder,     \* static/images/_placeholder/blank.jpg exists
    placeholder_writes, \* how often that file was written (capped at 2)
    api_key,         \* SARVAM_API_KEY is set
    tasks,           \* slot -> background task (its hash, position, locals)
    loop,            \* slot of the task holding the event loop, 0 if free
    response,        \* what the handler of this step returned (NoResponse
                     \* after a step that is not a handler)
    succeeded,       \* history: ids whose pipeline run reached `ready`
    calc             \* the call of a pure helper under examination: its
                     \* arguments and results (NoCalc while the server runs)

vars == <<registry, prompt_files, overview_files, placeholder,
          placeholder_writes, api_key, tasks, loop, response, succeeded,
          calc>>

NoCalc == [fn |-> "none"]

\* What no handler and no task changes.
Env == <<api_key, calc>>

NoResponse == [op |-> "none"]

NoTask == [hash |-> "", pc |-> "none", ff |-> "idle", exc |-> "",
           nimg |-> 0, stages |-> <<>>]

\* --------------------------------------------------------------- helpers
\* dict.get(key, default)
Get(state, key, default) == IF key \in DOMAIN state THEN state[key] ELSE default

\* A variant that makes a new dict with the one key: d = {k: v}
Put_OnlyKey(d, k, v) == [x \in {k} |-> v]

\* d[k] = v
Put(d, k, v) == [x \in DOMAIN d \cup {k} |-> IF x = k THEN v ELSE d[x]]

\* del d[k]
Del(d, k) == [x \in DOMAIN d \ {k} |-> d[x]]

\* A variant that hands out the path below the working directory.
_video_url_Path(subpath) == "static/videos/" \o subpath

_video_url(subpath) == BASE_URL \o "/static/videos/" \o subpath

PromptSubpath(id) == "prompt/" \o id \o ".mp4"

OverviewSubpath(id) == "overview/" \o id \o ".mp4"

\* prompt_path.exists()
PromptExists(id) == prompt_files[id] \in {"partial", "complete"}

\* overview_path.exists()
OverviewExists(id) == id \in overview_files

VideoStatusResponse(id, status, url, progress, message) ==
    [op |-> "get_video_status", id |-> id, status |-> status, url |-> url,
     progress |-> progress, message |-> message]

GenerateVideoResponse(hash, status, url) ==
    [op |-> "generate_video", id |-> hash, status |-> status, url |-> url]

\* A variant that stores what is left to do instead of what is done.
_update_Remaining(reg, video_hash, progress, message) ==
    Put(reg, video_hash,
        [status |-> "generating", progress |-> 100 - progress,
         message |-> message])

\* _update(progress, message) of the task for video_hash
_update(reg, video_hash, progress, message) ==
    Put(reg, video_hash,
        [status |-> "generating", progress |-> progress, message |-> message])

\* A variant that stores the file's path instead of its URL.
ReadyEntry_FilePath(video_hash) ==
    [status |-> "ready", progress |-> 100,
     url |-> "static/videos/" \o PromptSubpath(video_hash)]

ReadyEntry(video_hash) ==
    [status |-> "ready", progress |-> 100,
     url |-> _video_url(PromptSubpath(video_hash))]

\* A variant that leaves a url key in the entry of a failed run.
FailedEntry_WithUrl(msg) ==
    [status |-> "failed", progress |-> 0, message |-> msg, url |-> None]

FailedEntry(msg) == [status |-> "failed", progress |-> 0, message |-> msg]

NewEntry == [status |-> "generating", progress |-> 0]

Live(t) == tasks[t].pc # "none"

LiveTasks(f) == {t \in Slots : Live(t) /\ tasks[t].hash = f}

FreeSlots == {t \in Slots : ~Live(t)}

Min(a, b) == IF a <= b THEN a ELSE b

IdIndex(f) == CHOOSE i \in 1..Len(IdName) : IdName[i] = f

\* ------------------------------------------------------------------ Init
EmptyDict == [x \in {} |-> NewEntry]

Init ==
    /\ registry = EmptyDict
    /\ prompt_files = [f \in Ids |-> "absent"]
    /\ overview_files \in {{}, {IdName[1]}}
    /\ placeholder = FALSE
    /\ placeholder_writes = 0
    /\ api_key \in BOOLEAN
    /\ tasks = [t \in Slots |-> NoTask]
    /\ loop = 0
    /\ response = NoResponse
    /\ succeeded = {}
    /\ calc = NoCalc

\* -------------------------------------------------------- status polling
\* A variant that looks into the registry before the artifact paths.
StatusOf_RegistryFirst(id) ==
    IF id \in DOMAIN registry
    THEN VideoStatusResponse(id, registry[id].status,
                             Get(registry[id], "url", None),
                             Get(registry[id], "progress", 0),
                             Get(registry[id], "message", ""))
    ELSE IF PromptExists(id)
    THEN VideoStatusResponse(id, "ready", _video_url(PromptSubpath(id)), 100, "")
    ELSE IF OverviewExists(id)
    THEN VideoStatusResponse(id, "ready", _video_url(OverviewSubpath(id)), 100, "")
    ELSE VideoStatusResponse(id, "not_started", None, 0, "")

\* A variant that answers from the registry alone.
StatusOf_RegistryOnly(id) ==
    IF id \in DOMAIN registry
    THEN VideoStatusResponse(id, registry[id].status,
                             Get(registry[id], "url", None),
                             Get(registry[id], "progress", 0),
                             Get(registry[id], "message", ""))
    ELSE VideoStatusResponse(id, "not_started", None, 0, "")

\* GET /video-status/{id_or_hash}: the answer, by priority.
StatusOf(id) ==
    IF PromptExists(id)
    THEN VideoStatusResponse(id, "ready", _video_url(PromptSubpath(id)), 100, "")
    ELSE IF OverviewExists(id)
    THEN VideoStatusResponse(id, "ready", _video_url(OverviewSubpath(id)), 100, "")
    ELSE IF id \in DOMAIN registry
    THEN VideoStatusResponse(id, registry[id].status,
                             Get(registry[id], "url", None),
                             Get(registry[id], "progress", 0),
                             Get(registry[id], "message", ""))
    ELSE VideoStatusResponse(id, "not_started", None, 0, "")

get_video_status(id) ==
    /\ loop = 0
    /\ response' = StatusOf(id)
    /\ UNCHANGED <<registry, prompt_files, overview_files, placeholder,
                   placeholder_writes, Env, tasks, succeeded>>
    /\ UNCHANGED loop

\* ------------------------------------------------------------ submission
\* A variant that consults the registry before the artifact.
CacheHit_RegistryFirst(video_hash) ==
    PromptExists(video_hash) /\ video_hash \notin DOMAIN registry

\* Lines 105-106: the artifact short-circuit.
CacheHit(video_hash) == PromptExists(video_hash)

\* A variant that hands back only finished entries: a `generating` entry
\* falls through to a new dispatch.
ReturnsEntry_ReadyOnly(video_hash) ==
    /\ video_hash \in DOMAIN registry
    /\ registry[video_hash].status = "ready"

\* A variant without the `failed` test of line 117.
ReturnsEntry_Any(video_hash) == video_hash \in DOMAIN registry

\* Lines 114-125: an entry that is not `failed` is returned as it is.
ReturnsEntry(video_hash) ==
    /\ video_hash \in DOMAIN registry
    /\ registry[video_hash].status # "failed"

\* background_tasks.add_task: the task waits in the lowest free slot until
\* the response has been sent.
Dispatch(video_hash) ==
    LET t == CHOOSE s \in FreeSlots : \A u \in FreeSlots : s <= u
    IN  [tasks EXCEPT ![t] = [NoTask EXCEPT !.hash = video_hash,
                                            !.pc = "queued"]]

\* A variant in which the handler gives up the event loop between the
\* deletion of a failed entry (line 120) and the new entry (line 127).
generate_video_TwoSteps(video_hash) ==
    /\ loop = 0
    /\ IF CacheHit(video_hash)
       THEN /\ response' = GenerateVideoResponse(video_hash, "ready",
                               _video_url(PromptSubpath(video_hash)))
            /\ UNCHANGED <<registry, tasks>>
       ELSE IF ReturnsEntry(video_hash)
       THEN /\ response' = GenerateVideoResponse(video_hash,
                               registry[video_hash].status,
                               Get(registry[video_hash], "url", None))
            /\ UNCHANGED <<registry, tasks>>
       ELSE IF video_hash \in DOMAIN registry
       THEN /\ registry' = Del(registry, video_hash)
            /\ response' = GenerateVideoResponse(video_hash, "generating", None)
            /\ UNCHANGED tasks
       ELSE /\ FreeSlots # {}
            /\ registry' = Put(registry, video_hash, NewEntry)
            /\ tasks' = Dispatch(video_hash)
            /\ response' = GenerateVideoResponse(video_hash, "generating", None)
    /\ UNCHANGED <<prompt_files, overview_files, placeholder,
                   placeholder_writes, Env, loop, succeeded>>

\* POST /generate-video for a request whose fingerprint is video_hash.  The
\* handler has no suspension point: it is one step.
generate_video(video_hash) ==
    /\ loop = 0
    /\ IF CacheHit(video_hash)
       THEN /\ response' = GenerateVideoResponse(video_hash, "ready",
                               _video_url(PromptSubpath(video_hash)))
            /\ UNCHANGED <<registry, tasks>>
       ELSE IF ReturnsEntry(video_hash)
       THEN /\ response' = GenerateVideoResponse(video_hash,
                               registry[video_hash].status,
                               Get(registry[video_hash], "url", None))
            /\ UNCHANGED <<registry, tasks>>
       ELSE /\ FreeSlots # {}
            /\ registry' = Put(Del(registry, video_hash), video_hash, NewEntry)
            /\ tasks' = Dispatch(video_hash)
            /\ response' = GenerateVideoResponse(video_hash, "generating", None)
    /\ UNCHANGED <<prompt_files, overview_files, placeholder,
                   placeholder_writes, Env, loop, succeeded>>

\* ------------------------------------------------ _generate_video_task
\* The task in slot t after a step that leaves it at position pc.
At(t, pc) == [tasks EXCEPT ![t].pc = pc]

\* The same, entering a stage of the pipeline.
Enter(t, pc, stage) ==
    [tasks EXCEPT ![t].pc = pc, ![t].stages = Append(@, stage)]

\* A variant in which the exception is swallowed and the run goes on.
Raise_Swallowed(t, exc) ==
    [tasks EXCEPT ![t].pc = "narrated", ![t].exc = exc]

Raise(t, exc) == [tasks EXCEPT ![t].pc = "raised", ![t].exc = exc]

Finish(t) == [tasks EXCEPT ![t] = NoTask]

Files == <<prompt_files, overview_files, placeholder, placeholder_writes>>

\* Line 159, up to the suspension at asyncio.sleep (line 160).
Intake(t) ==
    /\ loop = 0
    /\ tasks[t].pc = "queued"
    /\ registry' = _update(registry, tasks[t].hash, 5, "Analyzing content...")
    /\ tasks' = Enter(t, "sleep", "intake")
    /\ response' = NoResponse
    /\ UNCHANGED <<Files, Env, loop, succeeded>>

\* A variant in which synthesize does not look at the key before its call.
NarrationBegin_KeyUnchecked(t) ==
    /\ loop = 0
    /\ tasks[t].pc = "sleep"
    /\ registry' = _update(registry, tasks[t].hash, 10, "Generating narration...")
    /\ tasks' = Enter(t, "tts_wait", "narration")
    /\ loop' = 0
    /\ response' = NoResponse
    /\ UNCHANGED <<Files, Env, succeeded>>

\* Lines 163-164 and synthesize up to its HTTP call: without the key it
\* raises before it ever suspends (sarvam_tts.py lines 46-47).
NarrationBegin(t) ==
    /\ loop = 0
    /\ tasks[t].pc = "sleep"
    /\ registry' = _update(registry, tasks[t].hash, 10, "Generating narration...")
    /\ IF api_key
       THEN /\ tasks' = Enter(t, "tts_wait", "narration")
            /\ loop' = 0
       ELSE /\ tasks' = [Enter(t, "raised", "narration")
                            EXCEPT ![t].exc = MsgKeyMissing]
            /\ loop' = t
    /\ response' = NoResponse
    /\ UNCHANGED <<Files, Env, succeeded>>

\* synthesize returns the audio (sarvam_tts.py lines 84-86).
TtsReturn(t) ==
    /\ loop = 0
    /\ tasks[t].pc = "tts_wait"
    /\ tasks' = At(t, "narrated")
    /\ loop' = t
    /\ response' = NoResponse
    /\ UNCHANGED <<registry, Files, Env, succeeded>>

\* synthesize raises (sarvam_tts.py lines 76-82).
TtsFail(t) ==
    /\ loop = 0
    /\ tasks[t].pc = "tts_wait"
    /\ \E e \in TtsErrors : tasks' = Raise(t, e)
    /\ loop' = t
    /\ response' = NoResponse
    /\ UNCHANGED <<registry, Files, Env, succeeded>>

\* Line 165.
NarrationReady(t) ==
    /\ loop = t
    /\ tasks[t].pc = "narrated"
    /\ registry' = _update(registry, tasks[t].hash, 40, "Narration ready")
    /\ tasks' = At(t, "u40")
    /\ response' = NoResponse
    /\ UNCHANGED <<Files, Env, loop, succeeded>>

\* Line 168.
ScenesBegin(t) ==
    /\ loop = t
    /\ tasks[t].pc = "u40"
    /\ registry' = _update(registry, tasks[t].hash, 45,
                           "Crafting cinematic scenes...")
    /\ tasks' = Enter(t, "scenes", "scenes")
    /\ response' = NoResponse
    /\ UNCHANGED <<Files, Env, loop, succeeded>>

\* Lines 212-237: the number of image paths returned for `jpgs` files in
\* the site's directory.
\* A variant that returns every *.jpg of the directory, without the [:5] cut.
ImagePaths_Uncapped(jpgs) == IF jpgs > 0 THEN jpgs ELSE 1

ImagePaths(jpgs) == IF jpgs > 0 THEN Min(jpgs, 5) ELSE 1

\* Line 169: _fetch_monument_images, which never suspends.
_fetch_monument_images(t) ==
    /\ loop = t
    /\ tasks[t].pc = "scenes"
    /\ \E jpgs \in SiteJpgs[IdIndex(tasks[t].hash)] :
          /\ IF jpgs = 0 /\ ~placeholder
             THEN /\ placeholder' = TRUE
                  /\ placeholder_writes' = Min(placeholder_writes + 1, 2)
             ELSE UNCHANGED <<placeholder, placeholder_writes>>
          /\ tasks' = [At(t, "fetched") EXCEPT ![t].nimg = ImagePaths(jpgs)]
    /\ response' = NoResponse
    /\ UNCHANGED <<registry, prompt_files, overview_files, Env, loop,
                   succeeded>>

\* Line 170.
ScenesComposed(t) ==
    /\ loop = t
    /\ tasks[t].pc = "fetched"
    /\ registry' = _update(registry, tasks[t].hash, 60, "Scenes composed")
    /\ tasks' = At(t, "u60")
    /\ response' = NoResponse
    /\ UNCHANGED <<Files, Env, loop, succeeded>>

\* Lines 173-178: the task makes its own ThreadPoolExecutor, hands
\* _run_ffmpeg to it and suspends.
EncodingBegin(t) ==
    /\ loop = t
    /\ tasks[t].pc = "u60"
    /\ registry' = _update(registry, tasks[t].hash, 65,
                           "Adding narration & visuals...")
    /\ tasks' = [Enter(t, "encoding", "encoding") EXCEPT ![t].ff = "running"]
    /\ loop' = 0
    /\ response' = NoResponse
    /\ UNCHANGED <<Files, Env, succeeded>>

\* ------------------------------------------------------------ _run_ffmpeg
\* The worker thread of the task's pool runs _run_ffmpeg: it starts the
\* ffmpeg child with `-y ... output_path` (lines 321-339), output_path being
\* the final PROMPT_DIR/<hash>.mp4 itself (lines 174, 183).  ffmpeg creates
\* that file when it opens its output and fills it while it encodes.

\* ffmpeg exits nonzero, or exceeds the 300 s timeout and is killed, before
\* it has opened its output (unreadable input): lines 339-345.
FfmpegFailsEarly(t) ==
    /\ tasks[t].pc = "encoding"
    /\ tasks[t].ff = "running"
    /\ \E e \in FfmpegErrors :
          tasks' = [tasks EXCEPT ![t].ff = "err", ![t].exc = e]
    /\ response' = NoResponse
    /\ UNCHANGED <<registry, Files, Env, loop, succeeded>>

\* ffmpeg opens (creates or truncates, -y) the output file.
FfmpegOpensOutput(t) ==
    /\ tasks[t].pc = "encoding"
    /\ tasks[t].ff = "running"
    /\ prompt_files' = [prompt_files EXCEPT ![tasks[t].hash] = "partial"]
    /\ tasks' = [tasks EXCEPT ![t].ff = "writing"]
    /\ response' = NoResponse
    /\ UNCHANGED <<registry, overview_files, placeholder, placeholder_writes,
                   Env, loop, succeeded>>

\* ffmpeg fails or is killed at the timeout while encoding; what it has
\* written stays on disk (lines 339-345 remove nothing).
FfmpegAborts(t) ==
    /\ tasks[t].pc = "encoding"
    /\ tasks[t].ff = "writing"
    /\ \E e \in FfmpegErrors :
          tasks' = [tasks EXCEPT ![t].ff = "err", ![t].exc = e]
    /\ response' = NoResponse
    /\ UNCHANGED <<registry, Files, Env, loop, succeeded>>

\* ffmpeg exits 0 with the whole video written (lines 339, 347-348).  If
\* the path was unlinked while ffmpeg wrote, the video went to the unlinked
\* file and os.path.getsize raises.
FfmpegCompletes(t) ==
    /\ tasks[t].pc = "encoding"
    /\ tasks[t].ff = "writing"
    /\ IF prompt_files[tasks[t].hash] = "deleted"
       THEN /\ tasks' = [tasks EXCEPT ![t].ff = "err",
                                      ![t].exc = MsgNoSuchFile]
            /\ UNCHANGED prompt_files
       ELSE /\ prompt_files' = [prompt_files EXCEPT
                                   ![tasks[t].hash] = "complete"]
            /\ tasks' = [tasks EXCEPT ![t].ff = "ok"]
    /\ response' = NoResponse
    /\ UNCHANGED <<registry, overview_files, placeholder, placeholder_writes,
                   Env, loop, succeeded>>

\* --------------------------------------- _generate_video_task, continued
\* run_in_executor's future resolves: the task resumes after line 184.
EncodingReturns(t) ==
    /\ loop = 0
    /\ tasks[t].pc = "encoding"
    /\ tasks[t].ff = "ok"
    /\ tasks' = At(t, "encoded")
    /\ loop' = t
    /\ response' = NoResponse
    /\ UNCHANGED <<registry, Files, Env, succeeded>>

\* run_in_executor's future carries _run_ffmpeg's exception.
EncodingRaises(t) ==
    /\ loop = 0
    /\ tasks[t].pc = "encoding"
    /\ tasks[t].ff = "err"
    /\ tasks' = At(t, "raised")
    /\ loop' = t
    /\ response' = NoResponse
    /\ UNCHANGED <<registry, Files, Env, succeeded>>

\* Line 186.
FinalizeBegin(t) ==
    /\ loop = t
    /\ tasks[t].pc = "encoded"
    /\ registry' = _update(registry, tasks[t].hash, 95, "Finalizing...")
    /\ tasks' = Enter(t, "finalize", "finalize")
    /\ response' = NoResponse
    /\ UNCHANGED <<Files, Env, loop, succeeded>>

\* A variant without the existence check of lines 188-189.
Finalize_Unchecked(t) ==
    /\ loop = t
    /\ tasks[t].pc = "finalize"
    /\ registry' = Put(registry, tasks[t].hash, ReadyEntry(tasks[t].hash))
    /\ tasks' = Finish(t)
    /\ loop' = 0
    /\ succeeded' = succeeded \cup {tasks[t].hash}
    /\ response' = NoResponse
    /\ UNCHANGED <<Files, Env>>

\* Lines 188-196: the existence check, then the `ready` entry; the task
\* ends.
Finalize(t) ==
    /\ loop = t
    /\ tasks[t].pc = "finalize"
    /\ IF PromptExists(tasks[t].hash)
       THEN /\ registry' = Put(registry, tasks[t].hash,
                               ReadyEntry(tasks[t].hash))
            /\ tasks' = Finish(t)
            /\ loop' = 0
            /\ succeeded' = succeeded \cup {tasks[t].hash}
       ELSE /\ tasks' = Raise(t, MsgOutputMissing)
            /\ UNCHANGED <<registry, loop, succeeded>>
    /\ response' = NoResponse
    /\ UNCHANGED <<Files, Env>>

\* A variant without the except clause: the exception ends the task and
\* the registry keeps what the last _update wrote.
Except_Unhandled(t) ==
    /\ loop = t
    /\ tasks[t].pc = "raised"
    /\ tasks' = Finish(t)
    /\ loop' = 0
    /\ response' = NoResponse
    /\ UNCHANGED <<registry, Files, Env, succeeded>>

\* Lines 198-204: the except clause; the task ends.
Except(t) ==
    /\ loop = t
    /\ tasks[t].pc = "raised"
    /\ registry' = Put(registry, tasks[t].hash, FailedEntry(tasks[t].exc))
    /\ tasks' = Finish(t)
    /\ loop' = 0
    /\ response' = NoResponse
    /\ UNCHANGED <<Files, Env, succeeded>>

\* ---------------------------------------------------------------- restart
\* The process is started again: the module is loaded anew (line 33 makes
\* an empty registry), no task of the old process survives, the files do.
Restart ==
    /\ registry' = EmptyDict
    /\ tasks' = [t \in Slots |-> NoTask]
    /\ loop' = 0
    /\ response' = NoResponse
    /\ UNCHANGED <<Files, Env, succeeded>>

\* ------------------------------------------------------- file deletion
\* Somebody outside the program removes PROMPT_DIR/<f>.mp4 (a cleanup job,
\* an ephemeral disk).  The program itself never deletes a video.
DeleteArtifact(f) ==
    /\ PromptExists(f)
    /\ prompt_files' = [prompt_files EXCEPT ![f] = "deleted"]
    /\ response' = NoResponse
    /\ UNCHANGED <<registry, overview_files, placeholder, placeholder_writes,
                   Env, tasks, loop, succeeded>>

\* ------------------------------------------------------------------ Next
Next ==
    \/ \E id \in Ids : get_video_status(id)
    \/ \E id \in Ids : generate_video(id)
    \/ \E t \in Slots : Intake(t)
    \/ \E t \in Slots : NarrationBegin(t)
    \/ \E t \in Slots : TtsReturn(t)
    \/ \E t \in Slots : TtsFail(t)
    \/ \E t \in Slots : NarrationReady(t)
    \/ \E t \in Slots : ScenesBegin(t)
    \/ \E t \in Slots : _fetch_monument_images(t)
    \/ \E t \in Slots : ScenesComposed(t)
    \/ \E t \in Slots : EncodingBegin(t)
    \/ \E t \in Slots : FfmpegFailsEarly(t)
    \/ \E t \in Slots : FfmpegOpensOutput(t)
    \/ \E t \in Slots : FfmpegAborts(t)
    \/ \E t \in Slots : FfmpegCompletes(t)
    \/ \E t \in Slots : EncodingReturns(t)
    \/ \E t \in Slots : EncodingRaises(t)
    \/ \E t \in Slots : FinalizeBegin(t)
    \/ \E t \in Slots : Finalize(t)
    \/ \E t \in Slots : Except(t)
    \/ Restart

Spec == Init /\ [][Next]_vars

\* ================================================================ claims
PromptUrl(f) == BASE_URL \o "/static/videos/prompt/" \o f \o ".mp4"

OverviewUrl(f) == BASE_URL \o "/static/videos/overview/" \o f \o ".mp4"

\* This step is generate_video answering a request with fingerprint f.
SubmitStep(f) == response'.op = "generate_video" /\ response'.id = f

\* The registry entry of f has this status.
HasStatus(f, st) == f \in DOMAIN registry /\ registry[f].status = st

\* The pipelines whose _run_ffmpeg is executing.
Encoding == {t \in Slots : Live(t) /\ tasks[t].ff \in {"running", "writing"}}

\* ---- C1
\* C1: for every fingerprint at most one pipeline is dispatched or running
\* at any time; a submit that gets to the registry and finds the entry
\* `generating` returns that entry's status and url, dispatches nothing and
\* changes nothing.
C1_OnePipelinePerFingerprint ==
    /\ [](\A f \in Ids : Cardinality(LiveTasks(f)) <= 1)
    /\ [][\A f \in Ids :
            (SubmitStep(f) /\ ~PromptExists(f) /\ HasStatus(f, "generating"))
            => /\ response'.status = "generating"
               /\ response'.url = Get(registry[f], "url", None)
               /\ tasks' = tasks
               /\ registry' = registry]_vars

\* A submit has just been answered from the entry of a run that is in its
\* encoding stage.
C1_Witness ==
    /\ response.op = "generate_video"
    /\ response.status = "generating"
    /\ HasStatus(response.id, "generating")
    /\ registry[response.id].progress = 65
    /\ Cardinality(LiveTasks(response.id)) = 1

\* ---- C2
\* C2: a file is at PROMPT_DIR/<f>.mp4 only if a pipeline run for f has
\* completed successfully, and no poll or submit answers `ready` with the
\* on-demand URL of f before that.
C2_ArtifactOnlyAfterSuccess ==
    /\ \A f \in Ids : PromptExists(f) => f \in succeeded
    /\ (response.op # "none" /\ response.status = "ready"
            /\ response.url = PromptUrl(response.id))
       => response.id \in succeeded

\* ---- C3
\* C3: a submit of f that finds the entry of f `failed` replaces it by a
\* fresh {generating, 0} entry, dispatches exactly one pipeline for f and
\* returns `generating`.
C3_ResubmitAfterFailure ==
    [][\A f \in Ids :
        (SubmitStep(f) /\ HasStatus(f, "failed"))
        => /\ response'.status = "generating"
           /\ f \in DOMAIN registry' /\ registry'[f] = NewEntry
           /\ LiveTasks(f) = {}
           /\ \E t \in Slots :
                /\ tasks' = [tasks EXCEPT ![t] =
                               [NoTask EXCEPT !.hash = f, !.pc = "queued"]]
                /\ ~Live(t)]_vars

\* ---- C4
\* C4: a submit of f with a file at PROMPT_DIR/<f>.mp4 returns `ready` with
\* that file's URL, dispatches nothing and leaves registry and files as
\* they are, whatever the registry holds for f.
C4_CacheHitChangesNothing ==
    [][\A f \in Ids :
        (SubmitStep(f) /\ PromptExists(f))
        => /\ response'.status = "ready"
           /\ response'.url = PromptUrl(f)
           /\ tasks' = tasks
           /\ registry' = registry
           /\ prompt_files' = prompt_files
           /\ overview_files' = overview_files]_vars

\* A cache hit answered while the registry still holds a `failed` entry.
C4_Witness ==
    /\ response.op = "generate_video"
    /\ response.status = "ready"
    /\ PromptExists(response.id)
    /\ HasStatus(response.id, "failed")

\* ---- C5
\* C5: get_video_status answers by priority: on-demand file, overview file,
\* registry entry (verbatim, absent fields by their defaults), not_started.
C5_StatusPriority ==
    response.op = "get_video_status" =>
        LET id == response.id
        IN  IF prompt_files[id] # "absent"
            THEN /\ response.status = "ready"
                 /\ response.progress = 100
                 /\ response.url = PromptUrl(id)
            ELSE IF id \in overview_files
            THEN /\ response.status = "ready"
                 /\ response.progress = 100
                 /\ response.url = OverviewUrl(id)
            ELSE IF id \in DOMAIN registry
            THEN /\ response.status = registry[id].status
                 /\ response.progress = registry[id].progress
                 /\ response.message = (IF "message" \in DOMAIN registry[id]
                                        THEN registry[id].message ELSE "")
                 /\ response.url = (IF "url" \in DOMAIN registry[id]
                                    THEN registry[id].url ELSE None)
            ELSE /\ response.status = "not_started"
                 /\ response.progress = 0

\* A poll answered `ready` from the file while the entry says `generating`.
C5_Witness ==
    /\ response.op = "get_video_status"
    /\ response.status = "ready"
    /\ prompt_files[response.id] = "complete"
    /\ HasStatus(response.id, "generating")

\* ---- C6
ErrorTexts == {MsgKeyMissing, MsgOutputMissing} \cup TtsErrors \cup FfmpegErrors

\* C6: a failed run leaves exactly {failed, 0, <error text>} without a url
\* in the registry, and while that entry stands every poll of the
\* fingerprint answers `failed` with progress 0 (the fingerprint is no id of
\* an overview video).
C6_FailureIsReported ==
    /\ \A f \in DOMAIN registry :
          registry[f].status = "failed"
          => /\ DOMAIN registry[f] = {"status", "progress", "message"}
             /\ registry[f].progress = 0
             /\ registry[f].message \in ErrorTexts
    /\ (response.op = "get_video_status"
            /\ HasStatus(response.id, "failed")
            /\ response.id \notin overview_files)
       => /\ response.status = "failed"
          /\ response.progress = 0

\* ---- C7
\* C7: once a pipeline run for f has completed successfully, every poll of
\* f answers `ready`, progress 100, with the on-demand URL, also when the
\* registry has lost its entry in a restart.
C7_ReadySurvivesRegistryLoss ==
    (response.op = "get_video_status" /\ response.id \in succeeded)
    => /\ response.status = "ready"
       /\ response.progress = 100
       /\ response.url = PromptUrl(response.id)

\* A poll answered `ready` for a finished video whose entry is gone.
C7_Witness ==
    /\ response.op = "get_video_status"
    /\ response.id \in succeeded
    /\ response.id \notin DOMAIN registry
    /\ response.status = "ready"

\* ---- C8
\* C8: in every reachable state at most one pipeline, over all
\* fingerprints, is executing _run_ffmpeg.
C8_OneEncodingOverall == Cardinality(Encoding) <= 1

\* C8 as amended: every run has a single-slot pool of its own, so at most
\* one pipeline per fingerprint is executing _run_ffmpeg.
C8_OneEncodingPerFingerprint ==
    \A f \in Ids : Cardinality(Encoding \cap LiveTasks(f)) <= 1

\* Two pipelines of different fingerprints are both in _run_ffmpeg.
C8_Witness ==
    \E t, u \in Encoding : tasks[t].hash # tasks[u].hash

\* ---- C9
IsPrefix(s, full) == Len(s) <= Len(full) /\ \A i \in 1..Len(s) : s[i] = full[i]

\* The progress written when a stage is entered.
StageProgress ==
    [intake |-> 5, narration |-> 10, scenes |-> 45, encoding |-> 65,
     finalize |-> 95]

\* C9: a run enters its stages in the order intake, narration, scenes,
\* encoding, finalize, none skipped; entering a stage writes the registry
\* first; after a failure the run enters no further stage; _run_ffmpeg
\* starts only with the narration and the scenes done and nothing raised;
\* `ready` is set only by a run that went through all five stages and whose
\* encoder succeeded.
C9_StagesInOrder ==
    /\ [](\A t \in Slots :
            /\ IsPrefix(tasks[t].stages, StageOrder)
            /\ tasks[t].ff = "running"
               => /\ tasks[t].stages = SubSeq(StageOrder, 1, 4)
                  /\ tasks[t].exc = ""
                  /\ tasks[t].nimg >= 1)
    /\ [][\A t \in Slots :
            /\ (Live(t) /\ tasks'[t].hash = tasks[t].hash
                    /\ tasks'[t].stages # tasks[t].stages)
               => /\ Len(tasks'[t].stages) = Len(tasks[t].stages) + 1
                  /\ HasStatus(tasks[t].hash, "generating")'
                  /\ registry'[tasks[t].hash].progress =
                        StageProgress[tasks'[t].stages[Len(tasks'[t].stages)]]
            /\ tasks[t].pc = "raised"
               => \/ tasks'[t].stages = tasks[t].stages
                  \/ tasks'[t] = NoTask
            /\ \A f \in Ids :
                  (~HasStatus(f, "ready") /\ HasStatus(f, "ready")')
                  => \E u \in Slots :
                        /\ tasks[u].hash = f
                        /\ tasks[u].stages = StageOrder
                        /\ tasks[u].ff = "ok"]_vars

\* A run is in its last stage, all five entered, progress 95 written.
C9_Witness ==
    \E t \in Slots :
        /\ tasks[t].pc = "finalize"
        /\ tasks[t].stages = StageOrder
        /\ HasStatus(tasks[t].hash, "generating")
        /\ registry[tasks[t].hash].progress = 95

\* ---- C10
\* C10: generate_video answers `generating` or `ready` only; for a
\* fingerprint with neither file nor entry it writes {generating, 0}, puts
\* one pipeline on the queue, not yet started, and answers `generating`.
C10_SubmitAnswers ==
    /\ [](response.op = "generate_video"
            => response.status \in {"generating", "ready"})
    /\ [][\A f \in Ids :
            (SubmitStep(f) /\ ~PromptExists(f) /\ f \notin DOMAIN registry)
            => /\ response'.status = "generating"
               /\ response'.url = None
               /\ f \in DOMAIN registry' /\ registry'[f] = NewEntry
               /\ \E t \in Slots :
                    /\ ~Live(t)
                    /\ tasks' = [tasks EXCEPT ![t] =
                                   [NoTask EXCEPT !.hash = f, !.pc = "queued"]]
                    /\ tasks'[t].stages = << >>]_vars

\* The first submit of a fingerprint has been answered; its pipeline waits.
C10_Witness ==
    /\ response.op = "generate_video"
    /\ response.status = "generating"
    /\ DOMAIN registry = {response.id}
    /\ registry[response.id] = NewEntry
    /\ \E t \in Slots : tasks[t].hash = response.id /\ tasks[t].pc = "queued"
    /\ succeeded = {}

\* ---- C11
\* The steps of the task in slot t when no stage fails.
SuccessStep(t) ==
    \/ Intake(t)
    \/ NarrationBegin(t)
    \/ TtsReturn(t)
    \/ NarrationReady(t)
    \/ ScenesBegin(t)
    \/ _fetch_monument_images(t)
    \/ ScenesComposed(t)
    \/ EncodingBegin(t)
    \/ FfmpegOpensOutput(t)
    \/ FfmpegCompletes(t)
    \/ EncodingReturns(t)
    \/ FinalizeBegin(t)
    \/ Finalize(t)

NextAllSucceed ==
    \/ \E id \in Ids : get_video_status(id)
    \/ \E id \in Ids : generate_video(id)
    \/ \E t \in Slots : SuccessStep(t)

InitAllSucceed == Init /\ api_key = TRUE

\* The process with the key set and every stage of every run succeeding.
\* The event loop runs every coroutine that stays ready, the worker thread
\* and the external calls go on, and the client keeps polling (weak
\* fairness of each).
SpecAllSucceed ==
    /\ InitAllSucceed
    /\ [][NextAllSucceed]_vars
    /\ \A t \in Slots : WF_vars(SuccessStep(t))
    /\ \A id \in Ids : WF_vars(get_video_status(id))

\* C11: when every stage succeeds, a run ends with the entry
\* {ready, 100, <base>/static/videos/prompt/<f>.mp4}, and a client that keeps
\* polling f receives ready, 100 and that URL, answered with that entry in
\* the registry.
C11_SuccessEndsReady ==
    /\ [][\A t \in Slots :
            (Live(t) /\ ~Live(t)')
            => /\ tasks[t].hash \in DOMAIN registry'
               /\ registry'[tasks[t].hash] =
                     [status |-> "ready", progress |-> 100,
                      url |-> PromptUrl(tasks[t].hash)]]_vars
    /\ \A f \in Ids :
          (LiveTasks(f) # {})
          ~> /\ HasStatus(f, "ready")
             /\ response.op = "get_video_status"
             /\ response.id = f
             /\ response.status = "ready"
             /\ response.progress = 100
             /\ response.url = PromptUrl(f)

\* A poll has been answered ready for a fingerprint whose run has ended
\* with the ready entry.
C11_Witness ==
    /\ response.op = "get_video_status"
    /\ response.status = "ready"
    /\ response.id \in succeeded
    /\ HasStatus(response.id, "ready")
    /\ LiveTasks(response.id) = {}

\* ---- C12
\* Every step of the task in slot t, of its worker thread and of the
\* external calls it waits for, succeeding or failing.
TaskStep(t) ==
    \/ SuccessStep(t)
    \/ TtsFail(t)
    \/ FfmpegFailsEarly(t)
    \/ FfmpegAborts(t)
    \/ EncodingRaises(t)
    \/ Except(t)

NextLifetime ==
    \/ \E id \in Ids : get_video_status(id)
    \/ \E id \in Ids : generate_video(id)
    \/ \E t \in Slots : TaskStep(t)

NextDeletion ==
    \/ NextLifetime
    \/ \E f \in Ids : DeleteArtifact(f)

\* One lifetime of the process in which videos can be removed from outside.
SpecDeletion == Init /\ [][NextDeletion]_vars

\* One lifetime of the process (no restart).  The event loop takes its
\* ready coroutines in turn and a stretch in which one task holds the loop
\* is finite, so a task that is ready again and again gets the loop (strong
\* fairness); synthesize returns or raises within TTS_TIMEOUT, ffprobe and
\* ffmpeg within their timeouts of 15 s and 300 s.
FairSpec ==
    /\ Init
    /\ [][NextLifetime]_vars
    /\ \A t \in Slots : SF_vars(TaskStep(t))

\* C12: no registry entry stays `generating` forever: it becomes `ready`
\* or `failed`.
C12_RunsTerminate ==
    \A f \in Ids :
        HasStatus(f, "generating")
        ~> (HasStatus(f, "ready") \/ HasStatus(f, "failed"))

\* A run has been dispatched and has not started yet, while the task of
\* another fingerprint holds the event loop.
C12_Witness ==
    \E t, u \in Slots :
        /\ tasks[t].pc = "queued"
        /\ HasStatus(tasks[t].hash, "generating")
        /\ loop = u /\ u # t

\* =========================================================== _make_hash
\* Strings are sequences of characters.

\* Longest narration tried.
MaxNarrationLen == 3

\* The 200 of bot_text.strip()[:200], scaled down to the strings tried.
NarrationLimit == 2

Whitespace == {" "}

NarrationChars == {" ", "x", "y"}

Strings(chars, n) == UNION {[1..k -> chars] : k \in 0..n}

SiteIdsTried == {<<"a">>, <<"a", ":", ":", "b">>}

PromptsTried == {<<"c">>, <<" ", "C">>, <<"b", ":", ":", "c">>}

Requests ==
    [prompt : PromptsTried,
     bot_text : Strings(NarrationChars, MaxNarrationLen),
     site_id : SiteIdsTried]

\* str.strip()
strip(s) ==
    LET keep == {i \in 1..Len(s) : s[i] \notin Whitespace}
    IN  IF keep = {} THEN << >>
        ELSE SubSeq(s, CHOOSE i \in keep : \A j \in keep : i <= j,
                       CHOOSE i \in keep : \A j \in keep : i >= j)

LowerChar(c) == IF c = "C" THEN "c" ELSE c

\* str.lower()
lower(s) == IF s = << >> THEN << >> ELSE [i \in 1..Len(s) |-> LowerChar(s[i])]

\* s[:n]
Slice(s, n) == SubSeq(s, 1, Min(n, Len(s)))

\* A variant that keeps the prompt's case.
NormPrompt_KeepCase(prompt) == strip(prompt)

\* prompt.strip().lower()
NormPrompt(prompt) == lower(strip(prompt))

\* A variant that hashes the whole narration.
NormNarration_Whole(bot_text) == strip(bot_text)

\* bot_text.strip()[:200]
NormNarration(bot_text) == Slice(strip(bot_text), NarrationLimit)

Sep == <<":", ":">>

\* Line 60: the f-string.
Raw(prompt, bot_text, site_id) ==
    site_id \o Sep \o NormPrompt(prompt) \o Sep \o NormNarration(bot_text)

\* hashlib.sha256(raw.encode()).hexdigest()[:24], the digest taken as
\* injective: the digest of a string stands for that string alone.
Sha256Hex24(raw) == <<"sha256">> \o raw

_make_hash(prompt, bot_text, site_id) ==
    Sha256Hex24(Raw(prompt, bot_text, site_id))

\* Two requests are fingerprinted.
Fingerprint2(a, b) ==
    /\ calc = NoCalc
    /\ calc' = [fn |-> "_make_hash", a |-> a, b |-> b,
                raw_a |-> Raw(a.prompt, a.bot_text, a.site_id),
                raw_b |-> Raw(b.prompt, b.bot_text, b.site_id),
                hash_a |-> _make_hash(a.prompt, a.bot_text, a.site_id),
                hash_b |-> _make_hash(b.prompt, b.bot_text, b.site_id)]
    /\ UNCHANGED <<registry, Files, api_key, tasks, loop, response, succeeded>>

InitHash == Init /\ api_key = TRUE /\ overview_files = {}

NextHash == calc = NoCalc /\ \E a, b \in Requests : Fingerprint2(a, b)

\* _make_hash applied to pairs of requests.
SpecHash == InitHash /\ [][NextHash]_vars

Hashed == calc.fn = "_make_hash"

\* ---- C13
\* C13: two requests with equal triples (site_id, prompt trimmed and
\* lower-cased, narration cut to its first NarrationLimit characters and
\* then trimmed) get the same fingerprint.
C13_EqualTriplesCutThenTrim ==
    (Hashed
        /\ calc.a.site_id = calc.b.site_id
        /\ lower(strip(calc.a.prompt)) = lower(strip(calc.b.prompt))
        /\ strip(Slice(calc.a.bot_text, NarrationLimit))
              = strip(Slice(calc.b.bot_text, NarrationLimit)))
    => calc.hash_a = calc.hash_b

\* C13 as amended: the narration is trimmed first and then cut.
C13_EqualTriplesTrimThenCut ==
    (Hashed
        /\ calc.a.site_id = calc.b.site_id
        /\ lower(strip(calc.a.prompt)) = lower(strip(calc.b.prompt))
        /\ Slice(strip(calc.a.bot_text), NarrationLimit)
              = Slice(strip(calc.b.bot_text), NarrationLimit))
    => calc.hash_a = calc.hash_b

\* Two requests that differ in the prompt's case and blanks and in the
\* narration's blanks and tail have one fingerprint.
C13_Witness ==
    /\ Hashed
    /\ calc.a.prompt # calc.b.prompt
    /\ calc.a.bot_text # calc.b.bot_text
    /\ Len(calc.a.bot_text) > NarrationLimit
    /\ calc.a.bot_text[1] \in Whitespace
    /\ calc.a.site_id = calc.b.site_id
    /\ lower(strip(calc.a.prompt)) = lower(strip(calc.b.prompt))
    /\ Slice(strip(calc.a.bot_text), NarrationLimit)
          = Slice(strip(calc.b.bot_text), NarrationLimit)
    /\ calc.hash_a = calc.hash_b

\* ---- C14
\* C14: two requests whose normalized triples differ are hashed from
\* different strings, whatever the components contain.
C14_DistinctTriplesDistinctRaw ==
    (Hashed
        /\ <<calc.a.site_id, lower(strip(calc.a.prompt)),
             Slice(strip(calc.a.bot_text), NarrationLimit)>>
           # <<calc.b.site_id, lower(strip(calc.b.prompt)),
               Slice(strip(calc.b.bot_text), NarrationLimit)>>)
    => /\ calc.raw_a # calc.raw_b
       /\ calc.hash_a # calc.hash_b

\* ---- C15
\* C15: same site_id, same prompt, narrations equal in their first
\* NarrationLimit characters: same fingerprint, leading blanks or not.
C15_SameWindowSameHash ==
    (Hashed
        /\ calc.a.site_id = calc.b.site_id
        /\ calc.a.prompt = calc.b.prompt
        /\ Slice(calc.a.bot_text, NarrationLimit)
              = Slice(calc.b.bot_text, NarrationLimit))
    => calc.hash_a = calc.hash_b

\* C15 as amended: the window is counted on the trimmed narration.
C15_SameTrimmedWindowSameHash ==
    (Hashed
        /\ calc.a.site_id = calc.b.site_id
        /\ calc.a.prompt = calc.b.prompt
        /\ calc.a.bot_text # calc.b.bot_text
        /\ Slice(strip(calc.a.bot_text), NarrationLimit)
              = Slice(strip(calc.b.bot_text), NarrationLimit))
    => calc.hash_a = calc.hash_b

\* Two narrations without blanks that differ after the window collide.
C15_Witness ==
    /\ Hashed
    /\ calc.a.site_id = calc.b.site_id
    /\ calc.a.prompt = calc.b.prompt
    /\ calc.a.bot_text = strip(calc.a.bot_text)
    /\ calc.b.bot_text = strip(calc.b.bot_text)
    /\ Len(calc.a.bot_text) > NarrationLimit
    /\ Len(calc.b.bot_text) > NarrationLimit
    /\ calc.a.bot_text # calc.b.bot_text
    /\ Slice(calc.a.bot_text, NarrationLimit)
          = Slice(calc.b.bot_text, NarrationLimit)
    /\ calc.hash_a = calc.hash_b

\* ------------------------------------------------------ scene selection
\* C16: scene selection never fails and returns 1 to 5 paths; for a site
\* without images it returns exactly one path and the placeholder file
\* exists afterwards; the placeholder file is written only while it does
\* not exist, hence at most once over all calls of all pipelines.
C16_ScenesNeverFail ==
    /\ [][\A t \in Slots :
            (tasks[t].pc = "scenes" /\ tasks'[t].pc \notin {"scenes", "none"})
               => /\ tasks'[t].pc = "fetched"
                  /\ tasks'[t].exc = ""
                  /\ tasks'[t].nimg \in 1..5
                  /\ SiteJpgs[IdIndex(tasks[t].hash)] = {0}
                        => (tasks'[t].nimg = 1 /\ placeholder')
                  /\ ~placeholder' => tasks'[t].nimg > 1 \/
                        0 \notin SiteJpgs[IdIndex(tasks[t].hash)]]_vars
    /\ [][placeholder_writes' # placeholder_writes
            => (~placeholder /\ placeholder')]_vars
    /\ [][placeholder => placeholder']_vars
    /\ [](placeholder_writes <= 1)

\* Two pipelines that run at the same time have both selected the
\* placeholder, and it was written once.
C16_Witness ==
    /\ placeholder_writes = 1
    /\ \E t, u \in Slots :
          /\ t # u
          /\ tasks[t].nimg = 1
          /\ tasks[u].nimg = 1
          /\ tasks[t].hash # tasks[u].hash

\* ------------------------------------------------- _run_ffmpeg: durations
\* Durations are counted in ticks; every total tried is a multiple of half
\* a second, so that total / num_images is exact for 1 to 5 images.
TicksPerSecond == 120

\* The probed durations tried: 0 to MaxProbeHalves half seconds.
MaxProbeHalves == 24

Seconds(n) == n * TicksPerSecond

\* What lines 294-299 can produce: ffprobe is missing, times out after 15 s
\* or prints nothing that float() accepts (ok is FALSE), or a duration.
ProbeFailed == [ok |-> FALSE, duration |-> 0]

ProbeOutcomes ==
    {ProbeFailed} \cup
    {[ok |-> TRUE, duration |-> k * (TicksPerSecond \div 2)] :
        k \in 0..MaxProbeHalves}

\* len(image_paths) for what _fetch_monument_images returns.
ImageCounts == {ImagePaths(jpgs) : jpgs \in 0..7}

\* Lines 293-302.
TotalDuration(probe) == IF probe.ok THEN probe.duration ELSE Seconds(30)

Max(a, b) == IF b > a THEN b ELSE a

\* A variant without the lower limit of two seconds.
DurationPerImage_NoFloor(total_duration, num_images) ==
    total_duration \div num_images

\* Line 305.
DurationPerImage(total_duration, num_images) ==
    Max(total_duration \div num_images, Seconds(2))

NoRun == [fn |-> "_run_ffmpeg", at |-> "start", num_images |-> 0,
          probe |-> ProbeFailed, total_duration |-> 0, duration_per_image |-> 0]

\* Lines 286-302: the audio is written and probed.
ProbeDuration(num_images, probe) ==
    /\ calc = NoCalc
    /\ calc' = [NoRun EXCEPT !.at = "probed",
                             !.num_images = num_images,
                             !.probe = probe,
                             !.total_duration = TotalDuration(probe)]
    /\ UNCHANGED <<registry, Files, api_key, tasks, loop, response,
                   succeeded>>

\* Lines 304-339: the concat list is written and ffmpeg is started.
StartFfmpeg ==
    /\ calc.fn = "_run_ffmpeg"
    /\ calc.at = "probed"
    /\ calc' = [calc EXCEPT !.at = "ffmpeg",
                            !.duration_per_image =
                               DurationPerImage(calc.total_duration,
                                                calc.num_images)]
    /\ UNCHANGED <<registry, Files, api_key, tasks, loop, response,
                   succeeded>>

NextDuration ==
    \/ calc = NoCalc /\ \E n \in ImageCounts, p \in ProbeOutcomes :
                           ProbeDuration(n, p)
    \/ StartFfmpeg

SpecDuration == InitHash /\ [][NextDuration]_vars

\* C17: the duration per image is the larger of total_duration / num_images
\* and two seconds, hence never below two seconds, for 1 to 5 images and any
\* probed duration, zero included; a failed probe gives a total of thirty
\* seconds, and encoding is started after every probe outcome.
C17_DurationPerImage ==
    calc.fn = "_run_ffmpeg" =>
       /\ calc.num_images \in 1..5
       /\ ~calc.probe.ok => calc.total_duration = Seconds(30)
       /\ calc.probe.ok => calc.total_duration = calc.probe.duration
       /\ calc.at = "probed" => ENABLED StartFfmpeg
       /\ calc.at = "ffmpeg" =>
             /\ calc.duration_per_image >= Seconds(2)
             /\ calc.duration_per_image * calc.num_images
                   >= calc.total_duration
             /\ \/ calc.duration_per_image = Seconds(2)
                \/ calc.duration_per_image * calc.num_images
                      = calc.total_duration

\* Encoding was started on five images after a probe that found no audio
\* duration at all.
C17_Witness ==
    /\ calc.fn = "_run_ffmpeg"
    /\ calc.at = "ffmpeg"
    /\ calc.num_images = 5
    /\ calc.probe = [ok |-> TRUE, duration |-> 0]
    /\ calc.duration_per_image = Seconds(2)

\* Encoding was started after a failed probe.
C17_WitnessFallback ==
    /\ calc.fn = "_run_ffmpeg"
    /\ calc.at = "ffmpeg"
    /\ ~calc.probe.ok
    /\ calc.duration_per_image = Seconds(30)

\* ------------------------------------------------------------ C18
\* The registry has no entry for f before and after this step, or the same.
EntryKept(f) ==
    /\ (f \in DOMAIN registry) = (f \in DOMAIN registry')
    /\ f \in DOMAIN registry => registry'[f] = registry[f]

\* This step is a GET /video-status answer.
PollStep == response'.op = "get_video_status"

\* This step is a step of a pipeline that works for fingerprint f.
PipelineStep(f) ==
    /\ response' = NoResponse
    /\ \E t \in Slots :
          Live(t) /\ tasks[t].hash = f /\ tasks'[t] # tasks[t]

\* This step starts the process anew: no task survives and the registry is
\* the empty one of a freshly loaded module.
RestartStep ==
    /\ response' = NoResponse
    /\ registry' = EmptyDict
    /\ \A t \in Slots : ~Live(t)'

\* C18: a poll changes neither the registry nor the video files; within one
\* process, an entry changes only by a step of a pipeline of its own key
\* (to a generating, ready or failed entry) or by a submit of its key that
\* finds no entry or a failed one and writes the initial generating entry;
\* a submit leaves every generating or ready entry as it is.
C18_RegistryWriters ==
    /\ [][PollStep => /\ registry' = registry
                      /\ prompt_files' = prompt_files
                      /\ overview_files' = overview_files
                      /\ placeholder' = placeholder
                      /\ tasks' = tasks]_vars
    /\ [][\A f \in Ids :
            (~EntryKept(f) /\ ~RestartStep) =>
               \/ /\ PipelineStep(f)
                  /\ f \in DOMAIN registry'
                  /\ registry'[f].status \in {"generating", "ready", "failed"}
               \/ /\ SubmitStep(f)
                  /\ f \notin DOMAIN registry \/ registry[f].status = "failed"
                  /\ registry'[f] = NewEntry]_vars
    /\ [][\A f, g \in Ids :
            (SubmitStep(g) /\ (HasStatus(f, "generating")
                                 \/ HasStatus(f, "ready") \/ f # g))
               => EntryKept(f)]_vars

\* A submit has found its entry generating, already past its first update,
\* and left it so.
C18_Witness ==
    /\ response.op = "generate_video"
    /\ response.status = "generating"
    /\ HasStatus(response.id, "generating")
    /\ registry[response.id].progress > 0
    /\ LiveTasks(response.id) # {}

\* ------------------------------------------------------------ C19
\* C19: every registry entry has status generating, ready or failed, an
\* integer progress from 0 to 100, and a url key exactly if it is ready; a
\* ready entry has progress 100 and a failed entry progress 0.
C19_EntryShape ==
    \A f \in DOMAIN registry :
       LET e == registry[f]
       IN  /\ {"status", "progress"} \subseteq DOMAIN e
           /\ e.status \in {"generating", "ready", "failed"}
           /\ e.progress \in 0..100
           /\ ("url" \in DOMAIN e) <=> (e.status = "ready")
           /\ e.status = "ready" => (e.progress = 100 /\ e.url # None)
           /\ e.status = "failed" => e.progress = 0

\* The registry holds the entry of a failed run next to the entry of a run
\* that is encoding.
C19_Witness ==
    \E f, g \in Ids :
       /\ HasStatus(f, "failed")
       /\ HasStatus(g, "generating")
       /\ registry[g].progress = 65

\* ------------------------------------------------------------ C20
\* C20: within one process a ready entry is never changed or removed, by
\* no submit, poll or pipeline step, and no pipeline works for its key any
\* more; a failed entry is changed only by a submit of its own key, which
\* replaces it by the initial entry of a new run, and the run that failed
\* has ended when the entry appears.
C20_TerminalEntries ==
    /\ [][\A f \in Ids :
            (HasStatus(f, "ready") /\ ~RestartStep) => EntryKept(f)]_vars
    /\ [][\A f \in Ids :
            (HasStatus(f, "failed") /\ ~EntryKept(f) /\ ~RestartStep) =>
               /\ SubmitStep(f)
               /\ registry'[f] = NewEntry
               /\ LiveTasks(f)' # {}]_vars
    /\ [](\A f \in Ids :
            (HasStatus(f, "ready") \/ HasStatus(f, "failed"))
               => LiveTasks(f) = {})

\* A submit of a fingerprint whose entry is ready was answered while the
\* pipeline of another fingerprint is encoding.
C20_Witness ==
    /\ response.op = "generate_video"
    /\ HasStatus(response.id, "ready")
    /\ response.status = "ready"
    /\ \E g \in Ids :
          /\ g # response.id
          /\ HasStatus(g, "generating")
          /\ registry[g].progress = 65

\* A failed entry stands while the pipeline of another fingerprint goes on.
C20_WitnessFailed ==
    \E f, g \in Ids :
       /\ HasStatus(f, "failed")
       /\ \E t \in LiveTasks(g) : tasks[t].pc = "finalize"

\* ------------------------------------------------------------ C21
\* C21: without the speech-synthesis key, a submit of a fingerprint that
\* has no entry is answered `generating` and dispatches a run; every run
\* gets no further than its narration stage (no scene selection, no
\* encoding, no file written), ends only by the except clause, which
\* leaves {failed, 0, "SARVAM_API_KEY is not set in environment"}, and
\* every generating entry does become that failed entry.
C21_MissingKeyFailsRun ==
    /\ [][\A f \in Ids :
            (~api_key /\ SubmitStep(f) /\ f \notin DOMAIN registry) =>
               /\ response'.status = "generating"
               /\ registry'[f] = NewEntry
               /\ LiveTasks(f)' # {}]_vars
    /\ [](~api_key =>
            /\ \A t \in Slots :
                  /\ IsPrefix(tasks[t].stages, <<"intake", "narration">>)
                  /\ tasks[t].nimg = 0
                  /\ tasks[t].ff = "idle"
                  /\ tasks[t].exc \in {"", MsgKeyMissing}
            /\ placeholder_writes = 0
            /\ \A f \in Ids : prompt_files[f] = "absent")
    /\ [][\A t \in Slots :
            (~api_key /\ Live(t) /\ ~Live(t)') =>
               /\ tasks[t].pc = "raised"
               /\ tasks[t].hash \in DOMAIN registry'
               /\ registry'[tasks[t].hash] =
                     [status |-> "failed", progress |-> 0,
                      message |-> MsgKeyMissing]]_vars
    /\ \A f \in Ids :
          (~api_key /\ HasStatus(f, "generating"))
             ~> (HasStatus(f, "failed")
                   /\ registry[f].message = MsgKeyMissing)

\* Without the key a run has failed and a poll has reported it.
C21_Witness ==
    /\ ~api_key
    /\ response.op = "get_video_status"
    /\ response.status = "failed"
    /\ response.message = MsgKeyMissing
    /\ HasStatus(response.id, "failed")
    /\ registry[response.id].message = MsgKeyMissing

\* ------------------------------------------------------------ C22
\* C22: an entry becomes ready only by the last step of a run of its key
\* that stands at the existence check and finds the video on disk; a run
\* that finds it missing there raises "FFmpeg completed but output file is
\* missing" and ends failed.  Hence a ready entry without a video on disk,
\* and a `ready` answer of a submit without one, occur only for a video
\* that was removed from outside.
C22_ReadyOnlyAfterCheck ==
    /\ [][\A f \in Ids :
            (~HasStatus(f, "ready") /\ HasStatus(f, "ready")') =>
               /\ prompt_files[f] = "complete"
               /\ \E t \in LiveTasks(f) :
                     tasks[t].pc = "finalize" /\ loop = t /\ ~Live(t)']_vars
    /\ [][\A t \in Slots :
            (tasks[t].pc = "finalize" /\ tasks'[t] # tasks[t]
               /\ ~PromptExists(tasks[t].hash)) =>
               /\ tasks'[t].pc = "raised"
               /\ tasks'[t].exc = MsgOutputMissing
               /\ registry' = registry]_vars
    /\ [][\A t \in Slots :
            (tasks[t].pc = "raised" /\ ~Live(t)') =>
               /\ tasks[t].hash \in DOMAIN registry'
               /\ registry'[tasks[t].hash].status = "failed"
               /\ registry'[tasks[t].hash].message = tasks[t].exc]_vars
    /\ [](\A f \in Ids :
            HasStatus(f, "ready") => prompt_files[f] \in {"complete", "deleted"})
    /\ [][\A f \in Ids :
            (SubmitStep(f) /\ response'.status = "ready"
               /\ prompt_files[f] # "deleted") => PromptExists(f)]_vars

\* One run has ended failed at the existence check while the entry of
\* another fingerprint is ready with its video on disk.
C22_Witness ==
    \E f, g \in Ids :
       /\ HasStatus(f, "failed")
       /\ registry[f].message = MsgOutputMissing
       /\ HasStatus(g, "ready")
       /\ prompt_files[g] = "complete"

\* ------------------------------------------------------------ C23
\* The progress values a generating entry can hold.
ProgressValues == {0, 5, 10, 40, 45, 60, 65, 95}

\* The progress sub-range of the stage a run is in (the intake step is the
\* lower end of the narration range); a run that is still queued has
\* entered no stage.
StageRange(stages) ==
    IF stages = <<>> THEN {0}
    ELSE CASE stages[Len(stages)] \in {"intake", "narration"} -> 5..40
           [] stages[Len(stages)] = "scenes" -> 40..60
           [] stages[Len(stages)] = "encoding" -> 60..95
           [] stages[Len(stages)] = "finalize" -> 95..100

\* C23: while an entry is generating its progress is one of 0, 5, 10, 40,
\* 45, 60, 65, 95 and lies in the sub-range of the stage its run is in; the
\* progress of an entry never decreases except when the failure of its run
\* resets it to 0 (a resubmission then starts again from that 0).
C23_ProgressMonotone ==
    /\ [](\A f \in Ids :
            HasStatus(f, "generating") =>
               /\ registry[f].progress \in ProgressValues
               /\ \A t \in LiveTasks(f) :
                     registry[f].progress \in StageRange(tasks[t].stages))
    /\ [][\A f \in Ids :
            (f \in DOMAIN registry /\ f \in DOMAIN registry'
               /\ registry'[f].progress < registry[f].progress) =>
               /\ registry[f].status = "generating"
               /\ registry'[f].status = "failed"
               /\ registry'[f].progress = 0]_vars
    /\ [][\A f \in Ids :
            (HasStatus(f, "generating") /\ f \in DOMAIN registry'
               /\ registry'[f].status = "generating") =>
               registry'[f].progress >= registry[f].progress]_vars

\* A run has reached its finalize stage with progress 95 while the entry
\* of another fingerprint has been reset to 0 by a failure.
C23_Witness ==
    \E f, g \in Ids :
       /\ HasStatus(f, "generating")
       /\ registry[f].progress = 95
       /\ \E t \in LiveTasks(f) : tasks[t].pc = "finalize"
       /\ HasStatus(g, "failed")

\* ------------------------------------------------------------ C24
\* This step is a submit, a poll or a pipeline step for fingerprint f.
Concerns(f) ==
    \/ SubmitStep(f)
    \/ PollStep /\ response'.id = f
    \/ PipelineStep(f) /\ ~RestartStep

\* C24: a submit, a poll or a pipeline step for fingerprint f leaves the
\* registry entry and the video files of every other fingerprint g as they
\* are, and with them the answer a poll of g would get.
C24_OtherKeysUntouched ==
    [][\A g \in Ids :
         \/ /\ EntryKept(g)
            /\ prompt_files'[g] = prompt_files[g]
            /\ (g \in overview_files') = (g \in overview_files)
            /\ StatusOf(g)' = StatusOf(g)
         \/ ~ \E f \in Ids \ {g} : Concerns(f)]_vars

\* A run of one fingerprint has just written its ready entry while the
\* entry of another fingerprint stands at generating, 65.
C24_Witness ==
    \E f, g \in Ids :
       /\ f # g
       /\ response = NoResponse
       /\ HasStatus(f, "ready")
       /\ LiveTasks(f) = {}
       /\ HasStatus(g, "generating")
       /\ registry[g].progress = 65
       /\ prompt_files[g] = "partial"

\* ------------------------------------------------------------ C25
\* The path of the on-demand video of f below the working directory.
PromptFilePath(f) == "static/videos/prompt/" \o f \o ".mp4"

\* C25: every url reported for the on-demand video of f is BASE_URL +
\* "/static/videos/prompt/" + f + ".mp4": in the answer of a submit (cache
\* hit or registry branch), in the answer of a poll that does not come from
\* the overview video, and in the ready registry entry; it is never the
\* file's path.
C25_OneUrlPerFingerprint ==
    /\ \A f \in Ids :
          HasStatus(f, "ready") =>
             registry[f].url = PromptUrl(f) /\ registry[f].url # PromptFilePath(f)
    /\ response.op = "generate_video" =>
          /\ response.url \in {None, PromptUrl(response.id)}
          /\ response.status = "ready" => response.url = PromptUrl(response.id)
    /\ response.op = "get_video_status" =>
          /\ response.url \in {None, PromptUrl(response.id),
                                OverviewUrl(response.id)}
          /\ response.status = "ready" => response.url # None
          /\ response.url = OverviewUrl(response.id) =>
                (~PromptExists(response.id) /\ OverviewExists(response.id))
    /\ \A f \in Ids : PromptUrl(f) # PromptFilePath(f)

\* A poll was answered from the ready registry entry, the video having been
\* removed: the stored url is reported and is the same string.
C25_Witness ==
    /\ response.op = "get_video_status"
    /\ response.status = "ready"
    /\ ~PromptExists(response.id)
    /\ ~OverviewExists(response.id)
    /\ HasStatus(response.id, "ready")
    /\ response.url = PromptUrl(response.id)

\* A submit was answered by the cache hit with the same string that the
\* ready entry holds.
C25_WitnessCacheHit ==
    /\ response.op = "generate_video"
    /\ PromptExists(response.id)
    /\ HasStatus(response.id, "ready")
    /\ response.url = registry[response.id].url

\* ------------------------------------------------------------ C26
\* C26: the entry of f is generating exactly if one run for f is dispatched
\* and has not ended, and there is never more than one such run: a
\* generating entry always has its run, and a run always has its
\* generating entry.
C26_GeneratingIffLiveRun ==
    \A f \in Ids :
       /\ Cardinality(LiveTasks(f)) <= 1
       /\ HasStatus(f, "generating") <=> (Cardinality(LiveTasks(f)) = 1)

\* A submit found its entry generating with the one run behind it, next to
\* the failed entry of a run that has ended.
C26_Witness ==
    /\ response.op = "generate_video"
    /\ response.status = "generating"
    /\ registry[response.id].progress > 0
    /\ Cardinality(LiveTasks(response.id)) = 1
    /\ \E g \in Ids : HasStatus(g, "failed") /\ LiveTasks(g) = {}

\* ------------------------------------------------------------ C27
\* The program knows fingerprint f: it has an entry or a video.
Known(f) == f \in DOMAIN registry \/ PromptExists(f) \/ OverviewExists(f)

\* C27: a submit of f leaves f with an entry or a video; within one process
\* a fingerprint that has an entry keeps an entry, through the replacement
\* of a failed entry too, which is one step; an on-demand video exists only
\* for a fingerprint that has an entry; and a poll of a fingerprint that has
\* an entry or a video never answers not_started.  So no poll after a
\* submit of f answers not_started.
C27_NoNotStartedAfterSubmit ==
    /\ [][\A f \in Ids : SubmitStep(f) => Known(f)']_vars
    /\ [][\A f \in Ids :
            (f \in DOMAIN registry /\ ~RestartStep)
               => f \in DOMAIN registry']_vars
    /\ [](\A f \in Ids : PromptExists(f) => f \in DOMAIN registry)
    /\ [][\A f \in Ids :
            (PollStep /\ response'.id = f /\ Known(f))
               => response'.status # "not_started"]_vars

\* A poll has found the new generating entry of a fingerprint whose failed
\* entry was replaced: an earlier run of it had written a video, which was
\* removed, and its new run has not started yet.
C27_Witness ==
    /\ response.op = "get_video_status"
    /\ response.status = "generating"
    /\ response.progress = 0
    /\ prompt_files[response.id] = "deleted"
    /\ registry[response.id] = NewEntry
    /\ \E t \in LiveTasks(response.id) : tasks[t].pc = "queued"

====
